---------------------------- MODULE Spec2Model ----------------------------
(***************************************************************************)
(* Model of the impulse-based collision handling of ImpulseSim             *)
(* (src/src/lab/engine2D/ImpulseSim.js): handleCollisions with its         *)
(* simultaneous and serial strategies, hcs_focus, hcs_handle and           *)
(* applyImpulse.                                                           *)
(*                                                                         *)
(* Numbers.  The program computes in floating point; the model computes    *)
(* in integers, in fixed units:                                            *)
(*   - an impulse is a whole number of impulse units, TINY_IMPULSE being   *)
(*     one unit; the impulses that resolve the scenes are whole multiples  *)
(*     of ImpulseStep, which is far above TINY_IMPULSE as 1e-5 is above    *)
(*     1e-12;                                                              *)
(*   - a velocity (linear, angular, relative normal velocity) is a whole   *)
(*     number of velocity units; one impulse unit on a body of mass m      *)
(*     changes its velocity by VelocityUnit / m velocity units, and        *)
(*     VelocityUnit is the least common multiple of the finite masses and  *)
(*     moments of the world, so that every division j/m, j/I is exact;     *)
(*   - small_velocity starts at SMALL_VELOCITY velocity units, many times  *)
(*     the velocity one TINY_IMPULSE gives a body, and the tolerance of    *)
(*     the solver check is TOLERANCE = 10 * SMALL_VELOCITY, the ratio of   *)
(*     the program's 1e-4 to 1e-5.                                         *)
(* Array indices run from 1 (the program's run from 0); the focus value    *)
(* "none" is -1 as in the program.                                         *)
(***************************************************************************)
EXTENDS Integers, Sequences, FiniteSets, TLC

(***************************************************************************)
(* Program constants.                                                      *)
(***************************************************************************)
\* ImpulseSim.TINY_IMPULSE = 1E-12: one impulse unit.
TINY_IMPULSE == 1

\* small_velocity = small_velocity || 0.00001: the default, in velocity units.
SMALL_VELOCITY == 100

\* var tol = 1E-4 in hcs_handle and handleCollisionsSimultaneous.
TOLERANCE == 1000

\* var LOOP_LIMIT = 100000.
LOOP_LIMIT == 100000

\* UtilityCore.POSITIVE_INFINITY, the mass and moment of an immovable body.
POSITIVE_INFINITY == 1000000

\* The value of a collision's impulse field before any impulse was recorded.
NaN == -1000000

isFinite(m) == m # POSITIVE_INFINITY

Abs(x) == IF x < 0 THEN -x ELSE x

(***************************************************************************)
(* Vectors.                                                                *)
(***************************************************************************)
Vector(x, y) == [x |-> x, y |-> y]

(***************************************************************************)
(* The bodies of the world: body 1 is an immovable wall, bodies 2 and 3    *)
(* are movable.                                                            *)
(***************************************************************************)
Bodies == 1..3

getMass(body) == <<POSITIVE_INFINITY, 1, 2>>[body]

momentAboutCM(body) == <<POSITIVE_INFINITY, 1, 2>>[body]

RECURSIVE Gcd(_, _)
Gcd(x, y) == IF y = 0 THEN x ELSE Gcd(y, x % y)

RECURSIVE LcmOf(_)
LcmOf(S) ==
  IF S = {} THEN 1
  ELSE LET x == CHOOSE y \in S : TRUE
           l == LcmOf(S \ {x})
       IN (x * l) \div Gcd(x, l)

\* Velocity units per unit of velocity: makes j/m and j/I whole numbers.
VelocityUnit ==
  LcmOf({getMass(bd) : bd \in {x \in Bodies : isFinite(getMass(x))}}
        \cup {momentAboutCM(bd) : bd \in {x \in Bodies : isFinite(momentAboutCM(x))}})

\* x / m for a velocity-like quantity x (in impulse units) and a finite m.
Per(x, m) == (x * VelocityUnit) \div m

(***************************************************************************)
(* influence(ci, cj, body): the change in relative normal velocity at ci   *)
(* from a unit impulse on body at cj.                                      *)
(***************************************************************************)
\* influence without the factor -1 for the normal body of cj.
influenceUnsigned(ci, cj, body) ==
  IF ~isFinite(getMass(body)) THEN 0
  ELSE IF ci.primaryBody # body /\ ci.normalBody # body THEN 0
  ELSE IF cj.primaryBody # body /\ cj.normalBody # body THEN 0
  ELSE
    LET rix == IF ci.primaryBody = body THEN ci.r1.x ELSE ci.r2.x
        riy == IF ci.primaryBody = body THEN ci.r1.y ELSE ci.r2.y
        rjx == IF cj.primaryBody = body THEN cj.r1.x ELSE cj.r2.x
        rjy == IF cj.primaryBody = body THEN cj.r1.y ELSE cj.r2.y
        rxn == rjx * cj.normal.y - rjy * cj.normal.x
    IN ci.normal.x * (Per(cj.normal.x, getMass(body))
                      - Per(riy * rxn, momentAboutCM(body)))
       + ci.normal.y * (Per(cj.normal.y, getMass(body))
                      + Per(rix * rxn, momentAboutCM(body)))

\* influence without the test that the body is a body of cj: a body that cj
\* does not touch is taken for its normal body.
influenceOfAnyContact(ci, cj, body) ==
  IF ~isFinite(getMass(body)) THEN 0
  ELSE IF ci.primaryBody # body /\ ci.normalBody # body THEN 0
  ELSE
    LET rix == IF ci.primaryBody = body THEN ci.r1.x ELSE ci.r2.x
        riy == IF ci.primaryBody = body THEN ci.r1.y ELSE ci.r2.y
        rjx == IF cj.primaryBody = body THEN cj.r1.x ELSE cj.r2.x
        rjy == IF cj.primaryBody = body THEN cj.r1.y ELSE cj.r2.y
        factor == IF cj.primaryBody = body THEN 1 ELSE -1
        rxn == rjx * cj.normal.y - rjy * cj.normal.x
    IN factor * (
         ci.normal.x * (Per(cj.normal.x, getMass(body))
                        - Per(riy * rxn, momentAboutCM(body)))
         + ci.normal.y * (Per(cj.normal.y, getMass(body))
                        + Per(rix * rxn, momentAboutCM(body))))

influence(ci, cj, body) ==
  IF ~isFinite(getMass(body)) THEN 0
  ELSE IF ci.primaryBody # body /\ ci.normalBody # body THEN 0
  ELSE IF cj.primaryBody # body /\ cj.normalBody # body THEN 0
  ELSE
    LET rix == IF ci.primaryBody = body THEN ci.r1.x ELSE ci.r2.x
        riy == IF ci.primaryBody = body THEN ci.r1.y ELSE ci.r2.y
        rjx == IF cj.primaryBody = body THEN cj.r1.x ELSE cj.r2.x
        rjy == IF cj.primaryBody = body THEN cj.r1.y ELSE cj.r2.y
        factor == IF cj.primaryBody = body THEN 1 ELSE -1
        rxn == rjx * cj.normal.y - rjy * cj.normal.x
    IN factor * (
         ci.normal.x * (Per(cj.normal.x, getMass(body))
                        - Per(riy * rxn, momentAboutCM(body)))
         + ci.normal.y * (Per(cj.normal.y, getMass(body))
                        + Per(rix * rxn, momentAboutCM(body))))

\* A[i][k] = influence(ci, ck, ci.primaryBody) - influence(ci, ck, ci.normalBody)
makeCollisionMatrix(cs) ==
  [i \in 1..Len(cs) |->
     [k \in 1..Len(cs) |->
        influence(cs[i], cs[k], cs[i].primaryBody)
        - influence(cs[i], cs[k], cs[i].normalBody)]]

(***************************************************************************)
(* Velocities: vars[body] holds the VX_, VY_ and VW_ variables of a body.  *)
(***************************************************************************)
Velocity(vx, vy, vw) == [vx |-> vx, vy |-> vy, vw |-> vw]

\* vi = ni . (va + wa x rai - (vb + wb x rbi)), with w x r = (-w*ry, w*rx)
calcNormalVelocity(c, va) ==
  LET p == va[c.primaryBody]
      q == va[c.normalBody]
  IN c.normal.x * ((p.vx - p.vw * c.r1.y) - (q.vx - q.vw * c.r2.y))
     + c.normal.y * ((p.vy + p.vw * c.r1.x) - (q.vy + q.vw * c.r2.x))

\* A collision as the detection hands it over: impulse not yet recorded.
RigidBodyCollision(body, normalBody, normal, r1, r2, joint, elasticity, va) ==
  LET c == [primaryBody |-> body, normalBody |-> normalBody, normal |-> normal,
            r1 |-> r1, r2 |-> r2, joint |-> joint, elasticity |-> elasticity]
  IN [primaryBody |-> body, normalBody |-> normalBody, normal |-> normal,
      r1 |-> r1, r2 |-> r2, joint |-> joint, elasticity |-> elasticity,
      normalVelocity |-> calcNormalVelocity(c, va), impulse |-> NaN]

(***************************************************************************)
(* applyImpulse(cd, j): the outcome for collision cd, impulse j and        *)
(* velocities va: whether it threw, the impulse recorded and the new       *)
(* velocities.                                                             *)
(***************************************************************************)
\* The velocity change of a body given to the body after it in the list.
addVelocityToNext(va, body, normal, rr, j, sign) ==
  LET m == getMass(body)
      I == momentAboutCM(body)
      other == (body % Cardinality(Bodies)) + 1
  IN IF isFinite(m)
     THEN [va EXCEPT ![other] =
             Velocity(@.vx + sign * Per(normal.x * j, m),
                      @.vy + sign * Per(normal.y * j, m),
                      @.vw + sign * Per(j * (rr.x * normal.y - rr.y * normal.x), I))]
     ELSE va

addVelocity(va, body, normal, rr, j, sign) ==
  LET m == getMass(body)
      I == momentAboutCM(body)
  IN IF isFinite(m)
     THEN [va EXCEPT ![body] =
             Velocity(@.vx + sign * Per(normal.x * j, m),
                      @.vy + sign * Per(normal.y * j, m),
                      @.vw + sign * Per(j * (rr.x * normal.y - rr.y * normal.x), I))]
     ELSE va

\* applyImpulse with the block of the normal body copied from the block of the
\* primary body and the mass left as m1.
applyImpulseMassOfPrimary(cd, j, va) ==
  IF ~cd.joint /\ j < 0 /\ j < -TINY_IMPULSE
  THEN [threw |-> TRUE, impulse |-> cd.impulse, va |-> va]
  ELSE LET jj == IF ~cd.joint /\ j < 0 THEN 0 ELSE j
           m1 == getMass(cd.primaryBody)
           I1 == momentAboutCM(cd.primaryBody)
           va1 == addVelocity(va, cd.primaryBody, cd.normal, cd.r1, jj, 1)
       IN IF jj = 0
          THEN [threw |-> FALSE, impulse |-> jj, va |-> va]
          ELSE [threw |-> FALSE, impulse |-> jj,
                va |-> IF isFinite(m1)
                       THEN [va1 EXCEPT ![cd.normalBody] =
                               Velocity(@.vx - Per(cd.normal.x * jj, m1),
                                        @.vy - Per(cd.normal.y * jj, m1),
                                        @.vw - Per(jj * (cd.r2.x * cd.normal.y
                                                         - cd.r2.y * cd.normal.x),
                                                   I1))]
                       ELSE va1]

\* applyImpulse without the test that throws: a negative impulse below
\* -TINY_IMPULSE is applied as given.
applyImpulseNoThrow(cd, j, va) ==
  LET jj == IF ~cd.joint /\ j < 0 /\ j >= -TINY_IMPULSE THEN 0 ELSE j
  IN IF jj = 0
     THEN [threw |-> FALSE, impulse |-> jj, va |-> va]
     ELSE [threw |-> FALSE, impulse |-> jj,
           va |-> addVelocity(addVelocity(va, cd.primaryBody, cd.normal,
                                          cd.r1, jj, 1),
                              cd.normalBody, cd.normal, cd.r2, jj, -1)]

\* applyImpulse without j = 0 for a tiny negative impulse.
applyImpulseNoClamp(cd, j, va) ==
  IF ~cd.joint /\ j < 0 /\ j < -TINY_IMPULSE
  THEN [threw |-> TRUE, impulse |-> cd.impulse, va |-> va]
  ELSE IF j = 0
       THEN [threw |-> FALSE, impulse |-> j, va |-> va]
       ELSE [threw |-> FALSE, impulse |-> j,
             va |-> addVelocity(addVelocity(va, cd.primaryBody, cd.normal,
                                            cd.r1, j, 1),
                                cd.normalBody, cd.normal, cd.r2, j, -1)]

applyImpulse(cd, j, va) ==
  IF ~cd.joint /\ j < 0 /\ j < -TINY_IMPULSE
  THEN [threw |-> TRUE, impulse |-> cd.impulse, va |-> va]
  ELSE LET jj == IF ~cd.joint /\ j < 0 THEN 0 ELSE j
       IN IF jj = 0
          THEN [threw |-> FALSE, impulse |-> jj, va |-> va]
          ELSE [threw |-> FALSE, impulse |-> jj,
                va |-> addVelocity(addVelocity(va, cd.primaryBody, cd.normal,
                                               cd.r1, jj, 1),
                                   cd.normalBody, cd.normal, cd.r2, jj, -1)]

(***************************************************************************)
(* The collaborators of the collision handling.                            *)
(***************************************************************************)
\* The impulse that changes the velocity of a body of mass VelocityUnit by
\* SMALL_VELOCITY: the velocities of the scenes are multiples of
\* SMALL_VELOCITY and the impulses that resolve them multiples of ImpulseStep.
ImpulseStep == SMALL_VELOCITY

\* Bounds of the model: the solver's impulses lie within MaxImpulse steps of
\* zero; when it reports a failure, its impulses are those of a solution with
\* one row off by at most MaxFailImpulse steps, by at most MaxTinyError
\* impulse units or by GrossFailImpulse steps; it reports at most MaxFailures
\* failures in one call.
MaxImpulse == 3

MaxFailImpulse == 1

MaxTinyError == 2

MaxFailures == 1

\* The smallest error of an impulse, in steps, that puts the velocity of its
\* row outside TOLERANCE whatever the bodies are.
GrossFailImpulse == (TOLERANCE \div ImpulseStep) + 2

FailOffsets ==
  {ImpulseStep * d : d \in (-MaxFailImpulse..MaxFailImpulse) \ {0}}
  \cup ((-MaxTinyError..MaxTinyError) \ {0})
  \cup {ImpulseStep * GrossFailImpulse, -ImpulseStep * GrossFailImpulse}

\* UtilEngine.matrixMultiply(A, j) then UtilEngine.vectorAdd(accel, b)
accelOf(A1, j1, b1) ==
  [r \in 1..Len(b1) |->
     LET RECURSIVE rowSum(_)
         rowSum(k) == IF k = 0 THEN 0 ELSE rowSum(k - 1) + A1[r][k] * j1[k]
     IN rowSum(Len(b1)) + b1[r]]

\* The contract of ComputeForces.compute_forces: with a = A j + b, a joint row
\* has a = 0; any other row has j >= 0, a >= 0 and j * a = 0.
solved(A1, j1, b1, joint1) ==
  LET a == accelOf(A1, j1, b1)
  IN \A r \in 1..Len(b1) :
       IF joint1[r] THEN a[r] = 0
       ELSE j1[r] >= 0 /\ a[r] >= 0 /\ j1[r] * a[r] = 0

\* ComputeForces.checkForceAccel(tol, j, accel, joint): |accel| is within tol on
\* joint rows and on the other rows with j > 0.
checkForceAccel(tol, j1, accel, joint1) ==
  \A r \in 1..Len(j1) : (joint1[r] \/ j1[r] > 0) => Abs(accel[r]) <= tol

\* What compute_forces may return for a system of n1 rows: error = -1 with
\* impulses that meet the contract, or an error (a row index) with impulses
\* that miss it in that row.
compute_forces(A1, b1, joint1, mayFail) ==
  LET n1 == Len(b1)
      steps == {[r \in 1..n1 |-> ImpulseStep * k[r]] :
                  k \in [1..n1 -> -MaxImpulse..MaxImpulse]}
      good == {j1 \in steps : solved(A1, j1, b1, joint1)}
      bad == IF mayFail
             THEN {[error |-> r, j |-> [j1 EXCEPT ![r] = @ + d]] :
                     j1 \in good, r \in 1..n1, d \in FailOffsets}
             ELSE {}
  IN {[error |-> -1, j |-> j1] : j1 \in good}
     \cup {out \in bad : ~solved(A1, out.j, b1, joint1)}

\* RandomLCG: a linear congruential generator, here of a small modulus.
RNG_MODULUS == 16

RNG_MULTIPLIER == 5

RNG_INCREMENT == 3

nextSeed(seed) == (RNG_MULTIPLIER * seed + RNG_INCREMENT) % RNG_MODULUS

\* Random.randomInts(n): the integers 1..n in an order drawn from the
\* generator, one draw for each, and the seed the generator is left with.
RECURSIVE shuffle(_, _, _)
shuffle(rest, seed, acc) ==
  IF Len(rest) = 0 THEN [ints |-> acc, seed |-> seed]
  ELSE LET s2 == nextSeed(seed)
           pos == ((s2 * Len(rest)) \div RNG_MODULUS) + 1
       IN shuffle([k \in 1..(Len(rest) - 1) |->
                     IF k < pos THEN rest[k] ELSE rest[k + 1]],
                  s2, Append(acc, rest[pos]))

randomInts(len, seed) == shuffle([k \in 1..len |-> k], seed, << >>)

\* The finite-mass bodies of a collision.
movable(c) == {bd \in {c.primaryBody, c.normalBody} : isFinite(getMass(bd))}

\* UtilityCollision.subsetCollisions2(collisions, collisions[focus], hybrid, b,
\* -small_velocity), as the set of indices: the focus collision, the joints
\* connected to its bodies through joints and, for hybrid, the other
\* collisions on those bodies with velocity below minVelocity.
RECURSIVE jointClosure(_, _)
jointClosure(cs, set) ==
  LET bods == UNION {movable(cs[k]) : k \in set}
      more == {k \in 1..Len(cs) :
                 k \notin set /\ cs[k].joint /\ movable(cs[k]) \cap bods # {}}
  IN IF more = {} THEN set ELSE jointClosure(cs, set \cup more)

subsetCollisions2(cs, focusIdx, isHybrid, v, minVelocity) ==
  LET joints == jointClosure(cs, {focusIdx})
      bods == UNION {movable(cs[k]) : k \in joints}
  IN IF isHybrid
     THEN joints \cup {k \in 1..Len(cs) :
                         ~cs[k].joint /\ movable(cs[k]) \cap bods # {}
                         /\ v[k] < minVelocity}
     ELSE joints

(***************************************************************************)
(* The scenes a call starts from: velocities of the bodies and the list of *)
(* collisions detected for them.                                           *)
(***************************************************************************)
AtRest == [bd \in Bodies |-> Velocity(0, 0, 0)]

moving(body, vx, vy) ==
  [AtRest EXCEPT ![body] = Velocity(vx * SMALL_VELOCITY, vy * SMALL_VELOCITY, 0)]

Scene(va, shapes) ==
  [velocities |-> va,
   collisions |->
     [k \in 1..Len(shapes) |->
        RigidBodyCollision(shapes[k][1], shapes[k][2], shapes[k][3], shapes[k][4],
                           shapes[k][5], shapes[k][6], shapes[k][7], va)]]

Elasticities == {0, 1}

ScenesOf(el) ==
  LET O == Vector(0, 0)
      X == Vector(1, 0)
      mX == Vector(-1, 0)
      Y == Vector(0, 1)
  IN { \* a ball hits the wall
       Scene(moving(2, -2, 0), << <<2, 1, X, O, O, FALSE, el>> >>),
       \* a body leans on the wall with a small approach velocity
       Scene(moving(3, -1, 0), << <<3, 1, X, O, O, FALSE, el>> >>),
       \* a ball leaves the wall
       Scene(moving(2, 2, 0), << <<2, 1, X, O, O, FALSE, el>> >>),
       \* one movable body hits the other
       Scene(moving(3, -3, 0), << <<3, 2, X, O, O, FALSE, el>> >>),
       \* a ball between two faces of the wall
       Scene(moving(2, -2, 0),
             << <<2, 1, X, O, O, FALSE, el>>, <<2, 1, mX, O, O, FALSE, el>> >>),
       \* two bodies connected by a joint, moving apart
       Scene(moving(3, 3, 0), << <<3, 2, X, O, O, TRUE, el>> >>),
       \* two bodies connected by a joint, moving together
       Scene(moving(3, -3, 0), << <<3, 2, X, O, O, TRUE, el>> >>),
       \* a corner of a block hits the ground: the block starts to spin
       Scene(moving(3, 0, -2), << <<3, 1, Y, Vector(1, 0), O, FALSE, el>> >>),
       \* a block lands flat on the ground
       Scene(moving(3, 0, -2),
             << <<3, 1, Y, Vector(-1, 0), O, FALSE, el>>,
                <<3, 1, Y, Vector(1, 0), O, FALSE, el>> >>),
       \* a ball hits the wall and pulls a second body along by a joint
       Scene([AtRest EXCEPT ![2] = moving(2, -2, 0)[2], ![3] = moving(3, -2, 0)[3]],
             << <<2, 1, X, O, O, FALSE, el>>, <<3, 2, X, O, O, TRUE, el>> >>) }

Scenes ==
  UNION {ScenesOf(el) : el \in Elasticities}
  \cup {[velocities |-> AtRest, collisions |-> << >>]}

\* Lists of two contacts that have no movable body in common.
PairScenesOf(el) ==
  LET O == Vector(0, 0)
      X == Vector(1, 0)
  IN { \* two bodies hit the wall, each on its own
       Scene([AtRest EXCEPT ![2] = moving(2, -2, 0)[2],
                            ![3] = moving(3, -1, 0)[3]],
             << <<2, 1, X, O, O, FALSE, el>>, <<3, 1, X, O, O, FALSE, el>> >>),
       \* a ball hits the wall next to a body that hangs on the wall by a
       \* joint
       Scene([AtRest EXCEPT ![2] = moving(2, -2, 0)[2],
                            ![3] = moving(3, 1, 0)[3]],
             << <<2, 1, X, O, O, FALSE, el>>, <<3, 1, X, O, O, TRUE, el>> >>) }

PairScenes == UNION {PairScenesOf(el) : el \in Elasticities}

CollisionHandling ==
  {"SIMULTANEOUS", "HYBRID", "SERIAL_SEPARATE", "SERIAL_GROUPED",
   "SERIAL_SEPARATE_LASTPASS", "SERIAL_GROUPED_LASTPASS"}

(***************************************************************************)
(* State.                                                                  *)
(***************************************************************************)
VARIABLES
  collisionHandling_,  \* this.collisionHandling_
  varsList_,           \* the velocity variables of the bodies (VarsList)
  collisions,          \* the list handed to handleCollisions, with c.impulse
  hasTotals, totals,   \* opt_totals: whether it was passed, and its impulses
  pc,                  \* where the call stands
  error,               \* the Error thrown, "" when none
  result,              \* the value handleCollisions returned
  hybrid, grouped, lastPass, small_velocity, doPanic,
  loopCtr, loopPanic, focus, debugHCS, indices,
  e, b, j2,            \* elasticity, normal velocity, cumulative impulse
  i, impulse,          \* the loop that applies the impulses
  varsList0,           \* history: the velocities when the call started
  applied,             \* history: how often applyImpulse ran for each collision
  handled,             \* history: the calls of hcs_handle
  lastPasses,          \* history: the calls of hcs_handle with focus = -1
  failures,            \* history: the failures compute_forces reported
  loopCap,             \* the model explores at most this many loop iterations
  goog_DEBUG,          \* goog.DEBUG: whether this is a debug build
  simRNG_,             \* this.simRNG_: the seed of the generator
  simRNG0,             \* history: the seed when the call started
  distanceTol_, velocityTol_, collisionAccuracy_,
  bods_,               \* this.bods_: the settings of each body added
  broadcasts,          \* the events broadcast so far
  call,                \* history: the last operation called on the settings
  run,                 \* 0 for a single call; else the first or second of two
  firstRun,            \* history: what the first of two calls ended with
  solves,              \* history: the solves of the first of two calls
  focuses,             \* history: the focus chosen in each iteration
  sequence,            \* how often incrSequence marked the energy discontinuous
  geometry,            \* the contacts the positions of the bodies present
  theConnector_,       \* ConnectorCollision: this.theConnector_
  updates,             \* history: the updateCollision calls a collision made
  gotConnector         \* the value getConnector returned last, 0 when none

vars ==
  <<collisionHandling_, varsList_, collisions, hasTotals, totals, pc, error, result,
    hybrid, grouped, lastPass, small_velocity, doPanic, loopCtr, loopPanic,
    focus, debugHCS, indices, e, b, j2, i, impulse, varsList0, applied, handled,
    lastPasses, failures, loopCap, goog_DEBUG, simRNG_, simRNG0,
    distanceTol_, velocityTol_, collisionAccuracy_, bods_, broadcasts, call,
    run, firstRun, solves, focuses, sequence,
    geometry, theConnector_, updates, gotConnector>>

\* The settings of the simulation, with the events broadcast for them.
simVars ==
  <<distanceTol_, velocityTol_, collisionAccuracy_, bods_, broadcasts, call>>

\* What neither a call of handleCollisions nor a setting touches: the
\* detection of the contacts and the collision of a connector.
otherVars == <<geometry, theConnector_, updates, gotConnector>>

\* No detection is under way and no collision of a connector exists.
NoOther ==
  /\ geometry = << >>
  /\ theConnector_ = 0
  /\ updates = << >>
  /\ gotConnector = 0

\* The model follows the serial loop for at most MaxLoop iterations.
MaxLoop == 6

n == Len(collisions)

joint == [k \in 1..n |-> collisions[k].joint]

\* nonJoint with "every" for "some".
nonJointOnly == \A k \in 1..n : ~collisions[k].joint

\* nonJoint = nonJoint || !ck.joint: whether there is a non-joint
nonJoint == \E k \in 1..n : ~collisions[k].joint

\* The test for a large impulse with >= 0 for > TINY_IMPULSE.
isLargeImpulseOrZero(j) == j >= 0

\* if (j2[i] > ImpulseSim.TINY_IMPULSE) impulse = true
isLargeImpulse(j) == j > TINY_IMPULSE

\* var PANIC_LIMIT = 20*n
PANIC_LIMIT == 20 * n

Start(scene) ==
  /\ varsList_ = scene.velocities
  /\ varsList0 = scene.velocities
  /\ collisions = scene.collisions
  /\ applied = [k \in 1..Len(scene.collisions) |-> 0]
  /\ totals = 0
  /\ pc = "idle"
  /\ error = ""
  /\ result = FALSE
  /\ hybrid = FALSE /\ grouped = FALSE /\ lastPass = FALSE
  /\ small_velocity = SMALL_VELOCITY
  /\ loopCtr = 0 /\ loopPanic = 0 /\ focus = -1 /\ debugHCS = FALSE
  /\ indices = << >> /\ e = << >> /\ b = << >> /\ j2 = << >>
  /\ i = 0 /\ impulse = FALSE
  /\ handled = 0 /\ lastPasses = 0
  /\ sequence = 0
  /\ firstRun = << >> /\ solves = << >> /\ focuses = << >>

\* Settings are in hundredths: 1.0 is Hundredths.
Hundredths == 100

\* this.distanceTol_ = 0.01
DISTANCE_TOL == 1

\* this.velocityTol_ = 0.5
VELOCITY_TOL == 50

\* this.collisionAccuracy_ = 0.6
COLLISION_ACCURACY == 60

\* The elasticity of a body when it is made.
BODY_ELASTICITY == 100

\* A body that keeps the settings a simulation is constructed with, whatever
\* the simulation holds when the body is added.
newBodyOfDefaults ==
  [distanceTol |-> DISTANCE_TOL, velocityTol |-> VELOCITY_TOL,
   accuracy |-> COLLISION_ACCURACY, elasticity |-> BODY_ELASTICITY]

\* A body as addBody leaves it: with the tolerances and accuracy of the
\* simulation.
newBody ==
  [distanceTol |-> distanceTol_, velocityTol |-> velocityTol_,
   accuracy |-> collisionAccuracy_, elasticity |-> BODY_ELASTICITY]

\* The simulation as its constructor leaves it, then with len bodies added.
Constructed(len) ==
  /\ distanceTol_ = DISTANCE_TOL
  /\ velocityTol_ = VELOCITY_TOL
  /\ collisionAccuracy_ = COLLISION_ACCURACY
  /\ bods_ = [k \in 1..len |-> newBody]
  /\ broadcasts = << >>
  /\ call = [op |-> "new ImpulseSim", value |-> 0]

\* The seeds the generator may hold when a call starts.
Seeds == {0, 1}

\* The calls explored: opt_totals passed or not, doPanic left at its default
\* (true) or passed as false, a debug build (goog.DEBUG) or not.
Builds ==
  {<<TRUE, TRUE, TRUE>>, <<FALSE, TRUE, TRUE>>, <<TRUE, FALSE, TRUE>>,
   <<TRUE, TRUE, FALSE>>}

Init ==
  /\ \E scene \in Scenes : Start(scene)
  /\ collisionHandling_ \in CollisionHandling \cup {"UNKNOWN"}
  /\ \E bld \in Builds :
       hasTotals = bld[1] /\ doPanic = bld[2] /\ goog_DEBUG = bld[3]
  /\ loopCap = MaxLoop
  /\ failures = 0
  /\ simRNG_ \in Seeds /\ simRNG0 = simRNG_
  /\ Constructed(Cardinality(Bodies))
  /\ run = 0
  /\ NoOther

(***************************************************************************)
(* hcs_focus: the first collision of the random list with a significant    *)
(* velocity, or -1.                                                        *)
(***************************************************************************)
RECURSIVE firstLarge(_, _, _, _, _)
firstLarge(k, ind, sv, jnt, vel) ==
  IF k > Len(vel) THEN -1
  ELSE LET g == ind[k]
       IN IF (~jnt[g] /\ vel[g] < -sv) \/ (jnt[g] /\ Abs(vel[g]) > sv)
          THEN g
          ELSE firstLarge(k + 1, ind, sv, jnt, vel)

\* hcs_focus looking at b[i] instead of b[indices[i]].
hcs_focusInOrder(ind, sv, jnt, vel) ==
  firstLarge(1, [k \in 1..Len(vel) |-> k], sv, jnt, vel)

hcs_focus(ind, sv, jnt, vel) == firstLarge(1, ind, sv, jnt, vel)

(***************************************************************************)
(* The parts of hcs_handle.                                                *)
(***************************************************************************)
\* set: the collisions handled together in this iteration.
handleSet(isHybrid, isGrouped, sv, foc, vel, cs) ==
  IF foc = -1 THEN 1..Len(cs)
  ELSE IF isHybrid \/ isGrouped
       THEN subsetCollisions2(cs, foc, isHybrid, vel, -sv)
       ELSE {foc}

\* idx2: the index from the subset to the big set.
RECURSIVE idx2Of(_)
idx2Of(set) ==
  IF set = {} THEN << >>
  ELSE LET g == CHOOSE x \in set : \A y \in set : x <= y
       IN <<g>> \o idx2Of(set \ {g})

subMatrix(A, idx2) ==
  [r \in 1..Len(idx2) |-> [k \in 1..Len(idx2) |-> A[idx2[r]][idx2[k]]]]

\* b1: the velocities of the subset, times 1 + elasticity unless focus = -1.
subVelocity(foc, el, vel, idx2) ==
  [k \in 1..Len(idx2) |->
     IF foc # -1 THEN vel[idx2[k]] * (1 + el[idx2[k]]) ELSE vel[idx2[k]]]

\* A j2 that takes the impulses j1 of the subset in place of what it held.
addImpulsesReplacing(cum, j1, idx2) ==
  [g \in 1..Len(cum) |->
     IF \E k \in 1..Len(idx2) : idx2[k] = g
     THEN j1[CHOOSE k \in 1..Len(idx2) : idx2[k] = g]
     ELSE cum[g]]

\* j2 after adding the impulses j1 of the subset.
addImpulses(cum, j1, idx2) ==
  [g \in 1..Len(cum) |->
     IF \E k \in 1..Len(idx2) : idx2[k] = g
     THEN cum[g] + j1[CHOOSE k \in 1..Len(idx2) : idx2[k] = g]
     ELSE cum[g]]

\* The b of the branch that the source disables with 1 == 0: when the subset
\* is the whole list, b1 is b itself, so that b1[k] *= 1+e scales b before
\* the impulses are added to it.
updateVelocityOfAlias(vel, A, j1, idx2) ==
  [g \in 1..Len(vel) |->
     LET RECURSIVE sum(_)
         sum(k) == IF k = 0 THEN 0 ELSE sum(k - 1) + A[g][idx2[k]] * j1[k]
     IN (IF Len(idx2) = Len(vel) /\ focus # -1
         THEN vel[g] * (1 + e[g]) ELSE vel[g]) + sum(Len(idx2))]

\* b after the impulses j1 of the subset: b[i] += A[i][j]*j1[idx[j]].
updateVelocity(vel, A, j1, idx2) ==
  [g \in 1..Len(vel) |->
     LET RECURSIVE sum(_)
         sum(k) == IF k = 0 THEN 0 ELSE sum(k - 1) + A[g][idx2[k]] * j1[k]
     IN vel[g] + sum(Len(idx2))]

(***************************************************************************)
(* handleCollisions.                                                       *)
(***************************************************************************)
Throw(msg) ==
  /\ pc' = "error"
  /\ error' = msg

\* RandomLCG.setSeed(value): the seed of the generator becomes value.
setSeed(value) == value % RNG_MODULUS

\* The seed left as it is.
keepSeed(value) == simRNG_

\* setRandomSeed: this.simRNG_.setSeed(value)
setRandomSeed(value) == setSeed(value)

\* A start of handleCollisionsSerial that takes no last pass whatever it is
\* asked for.
SerialStartNoLastPass(isHybrid, isGrouped, isLastPass) ==
  /\ hybrid' = isHybrid
  /\ grouped' = isGrouped
  /\ lastPass' = FALSE
  /\ loopCtr' = 0
  /\ loopPanic' = PANIC_LIMIT
  /\ focus' = -1
  /\ e' = [k \in 1..n |->
             IF isGrouped
             THEN (IF joint[k] THEN 0 ELSE collisions[k].elasticity)
             ELSE collisions[k].elasticity]
  /\ b' = [k \in 1..n |-> collisions[k].normalVelocity]
  /\ j2' = [k \in 1..n |-> 0]
  /\ pc' = "loop"
  /\ error' = error

\* The start of handleCollisionsSerial, up to the loop.
SerialStart(isHybrid, isGrouped, isLastPass) ==
  /\ hybrid' = isHybrid
  /\ grouped' = isGrouped
  /\ lastPass' = isLastPass
  /\ loopCtr' = 0
  /\ loopPanic' = PANIC_LIMIT
  /\ focus' = -1
  /\ e' = [k \in 1..n |->
             IF isGrouped
             THEN (IF joint[k] THEN 0 ELSE collisions[k].elasticity)
             ELSE collisions[k].elasticity]
  /\ b' = [k \in 1..n |-> collisions[k].normalVelocity]
  /\ j2' = [k \in 1..n |-> 0]
  /\ pc' = "loop"
  /\ error' = error

\* A list of collisions that is never taken for empty.
isEmptyNever(cs) == FALSE

\* if (collisions.length == 0)
isEmpty(cs) == Len(cs) = 0

\* handleCollisions up to the strategy it dispatches to.
HandleCollisions ==
  /\ pc = "idle"
  /\ IF isEmpty(collisions)
     THEN /\ Throw("empty array passed to handleCollisions")
          /\ UNCHANGED <<hybrid, grouped, lastPass, loopCtr, loopPanic, focus,
                         e, b, j2>>
     ELSE CASE collisionHandling_ = "SIMULTANEOUS" ->
                 /\ pc' = "simultaneous"
                 /\ UNCHANGED <<error, hybrid, grouped, lastPass, loopCtr,
                                loopPanic, focus, e, b, j2>>
            [] collisionHandling_ = "HYBRID" -> SerialStart(TRUE, TRUE, TRUE)
            [] collisionHandling_ = "SERIAL_SEPARATE" ->
                 SerialStart(FALSE, FALSE, FALSE)
            [] collisionHandling_ = "SERIAL_GROUPED" ->
                 SerialStart(FALSE, TRUE, FALSE)
            [] collisionHandling_ = "SERIAL_SEPARATE_LASTPASS" ->
                 SerialStart(FALSE, FALSE, TRUE)
            [] collisionHandling_ = "SERIAL_GROUPED_LASTPASS" ->
                 SerialStart(FALSE, TRUE, TRUE)
            [] OTHER ->
                 /\ Throw("unknown collision handler")
                 /\ UNCHANGED <<hybrid, grouped, lastPass, loopCtr, loopPanic,
                                focus, e, b, j2>>
  /\ UNCHANGED <<collisionHandling_, varsList_, collisions, hasTotals, totals,
                 result, small_velocity, doPanic, debugHCS, indices, i, impulse,
                 varsList0, applied, handled, lastPasses, failures, loopCap,
                 goog_DEBUG, simRNG_, simRNG0, simVars, otherVars, sequence,
                 run, firstRun, solves, focuses>>

\* The count of a solve made whether or not opt_totals was passed.
countImpulsesAlways(isCounted, count) == count + 1

\* if (opt_totals) opt_totals.addImpulses(1)
countImpulses(isCounted, count) == IF isCounted THEN count + 1 ELSE count

\* this.computeImpacts_.compute_forces(A1, b1, joint1, ...) for the contacts
\* idx2: the solver gives one answer to one question, so in the second of two
\* calls a solve that meets the system of the same solve of the first call
\* returns what it returned then.
computeImpacts_(idx2, A1, b1, joint1) ==
  IF /\ run = 2 /\ handled < Len(solves)
     /\ solves[handled + 1].idx2 = idx2 /\ solves[handled + 1].b1 = b1
  THEN {solves[handled + 1].out}
  ELSE compute_forces(A1, b1, joint1, failures < MaxFailures)

\* solves after a solve: the first of two calls records it.
recordSolve(idx2, b1, out) ==
  IF run = 1 THEN Append(solves, [idx2 |-> idx2, b1 |-> b1, out |-> out])
  ELSE solves

\* The panic test with >= for >.
panicsAtLimit(isPanic, ctr, limit) == isPanic /\ ctr >= limit

\* if (doPanic && loopCtr > loopPanic)
panics(isPanic, ctr, limit) == isPanic /\ ctr > limit

\* The break taken without regard to lastPass.
breaksWithoutLastPass(foc, isLastPass) == foc = -1

\* if (focus == -1 && !lastPass) break
breaks(foc, isLastPass) == foc = -1 /\ ~isLastPass

\* The loop test that takes the value -1 for an index.
continuesOnSentinel(foc) == foc >= -1

\* while (focus > -1)
continues(foc) == foc > -1

\* The loop test that skips the last collision.
inApplyLoopShort(idx, len) == idx < len

\* for (i=0; i<n; i++) around applyImpulse
inApplyLoop(idx, len) == idx <= len

\* One pass through the head of the loop of handleCollisionsSerial: the
\* counter, the panic, the diagnostics and the choice of the focus.
SerialFocus ==
  /\ pc = "loop"
  /\ loopCtr < loopCap
  /\ loopCtr' = loopCtr + 1
  /\ IF panics(doPanic, loopCtr', loopPanic)
     THEN /\ small_velocity' = small_velocity * 2
          /\ loopPanic' = loopPanic + PANIC_LIMIT
     ELSE UNCHANGED <<small_velocity, loopPanic>>
  /\ debugHCS' = (debugHCS \/ (goog_DEBUG /\ loopCtr' > LOOP_LIMIT))
  /\ LET r == randomInts(n, simRNG_)
     IN /\ indices' = r.ints
        /\ simRNG_' = r.seed
        /\ focus' = hcs_focus(r.ints, small_velocity', joint, b)
  /\ focuses' = IF run = 0 THEN focuses ELSE Append(focuses, focus')
  /\ IF breaks(focus', lastPass)
     THEN pc' = "apply" /\ i' = 1 /\ impulse' = FALSE
     ELSE pc' = "handle" /\ UNCHANGED <<i, impulse>>
  /\ UNCHANGED <<collisionHandling_, varsList_, collisions, hasTotals, totals,
                 error, result, hybrid, grouped, lastPass, doPanic, e, b, j2,
                 varsList0, applied, handled, lastPasses, failures, loopCap,
                 goog_DEBUG, simRNG0, simVars, otherVars, sequence,
                 run, firstRun, solves>>

\* An hcs_handle that applies the impulse of its first contact to the bodies
\* as soon as it is solved, instead of leaving it to the loop after the last
\* iteration.
SerialHandleApplying ==
  /\ pc = "handle"
  /\ LET A == makeCollisionMatrix(collisions)
         idx2 == idx2Of(handleSet(hybrid, grouped, small_velocity, focus, b,
                                  collisions))
         A1 == subMatrix(A, idx2)
         b1 == subVelocity(focus, e, b, idx2)
         joint1 == [k \in 1..Len(idx2) |-> joint[idx2[k]]]
     IN \E out \in computeImpacts_(idx2, A1, b1, joint1) :
          /\ solves' = recordSolve(idx2, b1, out)
          /\ failures' = IF out.error # -1 THEN failures + 1 ELSE failures
          /\ IF out.error # -1
                /\ ~checkForceAccel(TOLERANCE, out.j, accelOf(A1, out.j, b1),
                                    joint1)
             THEN /\ Throw("compute_impulses failed")
                  /\ UNCHANGED <<j2, b, totals, handled, lastPasses, i, impulse,
                                 varsList_>>
             ELSE /\ j2' = addImpulses(j2, out.j, idx2)
                  /\ LET r == applyImpulse(collisions[idx2[1]], out.j[1],
                                           varsList_)
                     IN varsList_' = IF r.threw THEN varsList_ ELSE r.va
                  /\ b' = updateVelocity(b, A, out.j, idx2)
                  /\ totals' = countImpulses(hasTotals, totals)
                  /\ handled' = handled + 1
                  /\ lastPasses' = IF focus = -1 THEN lastPasses + 1
                                   ELSE lastPasses
                  /\ error' = error
                  /\ IF continues(focus)
                     THEN pc' = "loop" /\ UNCHANGED <<i, impulse>>
                     ELSE pc' = "apply" /\ i' = 1 /\ impulse' = FALSE
  /\ UNCHANGED <<collisionHandling_, collisions, hasTotals, result,
                 hybrid, grouped, lastPass, small_velocity, doPanic, loopCtr,
                 loopPanic, focus, debugHCS, indices, e, varsList0, applied,
                 loopCap, goog_DEBUG, simRNG_, simRNG0, simVars, otherVars, sequence,
                 run, firstRun, focuses>>

\* hcs_handle for the chosen focus, the count in opt_totals and the test
\* that ends the loop.
SerialHandle ==
  /\ pc = "handle"
  /\ LET A == makeCollisionMatrix(collisions)
         idx2 == idx2Of(handleSet(hybrid, grouped, small_velocity, focus, b,
                                  collisions))
         A1 == subMatrix(A, idx2)
         b1 == subVelocity(focus, e, b, idx2)
         joint1 == [k \in 1..Len(idx2) |-> joint[idx2[k]]]
     IN \E out \in computeImpacts_(idx2, A1, b1, joint1) :
          /\ solves' = recordSolve(idx2, b1, out)
          /\ failures' = IF out.error # -1 THEN failures + 1 ELSE failures
          /\ IF out.error # -1
                /\ ~checkForceAccel(TOLERANCE, out.j, accelOf(A1, out.j, b1),
                                    joint1)
             THEN /\ Throw("compute_impulses failed")
                  /\ UNCHANGED <<j2, b, totals, handled, lastPasses, i, impulse>>
             ELSE /\ j2' = addImpulses(j2, out.j, idx2)
                  /\ b' = updateVelocity(b, A, out.j, idx2)
                  /\ totals' = countImpulses(hasTotals, totals)
                  /\ handled' = handled + 1
                  /\ lastPasses' = IF focus = -1 THEN lastPasses + 1
                                   ELSE lastPasses
                  /\ error' = error
                  /\ IF continues(focus)
                     THEN pc' = "loop" /\ UNCHANGED <<i, impulse>>
                     ELSE pc' = "apply" /\ i' = 1 /\ impulse' = FALSE
  /\ UNCHANGED <<collisionHandling_, varsList_, collisions, hasTotals, result,
                 hybrid, grouped, lastPass, small_velocity, doPanic, loopCtr,
                 loopPanic, focus, debugHCS, indices, e, varsList0, applied,
                 loopCap, goog_DEBUG, simRNG_, simRNG0, simVars, otherVars, sequence,
                 run, firstRun, focuses>>

\* RigidBodyCollision.contact(): a joint is handled with zero elasticity.
contact(c) == c.joint

\* handleCollisionsSimultaneous up to the loop that applies the impulses.
Simultaneous ==
  /\ pc = "simultaneous"
  /\ LET A == makeCollisionMatrix(collisions)
         b1 == [k \in 1..n |->
                  collisions[k].normalVelocity
                  * (IF contact(collisions[k]) THEN 1
                     ELSE 1 + collisions[k].elasticity)]
     IN \E out \in computeImpacts_([k \in 1..n |-> k], A, b1, joint) :
          /\ solves' = recordSolve([k \in 1..n |-> k], b1, out)
          /\ failures' = IF out.error # -1 THEN failures + 1 ELSE failures
          /\ IF goog_DEBUG /\ out.error # -1
                /\ ~checkForceAccel(TOLERANCE, out.j, accelOf(A, out.j, b1), joint)
             THEN /\ Throw("compute_impulses failed")
                  /\ UNCHANGED <<e, b, j2, i, impulse>>
             ELSE /\ e' = [k \in 1..n |->
                             IF contact(collisions[k]) THEN 1
                             ELSE 1 + collisions[k].elasticity]
                  /\ b' = b1
                  /\ j2' = out.j
                  /\ pc' = "apply" /\ i' = 1 /\ impulse' = FALSE
                  /\ error' = error
  /\ UNCHANGED <<collisionHandling_, varsList_, collisions, hasTotals, totals,
                 result, hybrid, grouped, lastPass, small_velocity, doPanic,
                 loopCtr, loopPanic, focus, debugHCS, indices, varsList0,
                 applied, handled, lastPasses, loopCap, goog_DEBUG, simRNG_, simRNG0, simVars, otherVars, sequence,
                 run, firstRun, focuses>>

\* One pass through the loop that applies the impulses (of either strategy):
\* applyImpulse(collisions[i], j2[i]).
ApplyImpulse ==
  /\ pc = "apply"
  /\ inApplyLoop(i, n)
  /\ impulse' = (impulse \/ isLargeImpulse(j2[i]))
  /\ LET r == applyImpulse(collisions[i], j2[i], varsList_)
     IN IF r.threw
        THEN /\ Throw("negative impulse is impossible")
             /\ UNCHANGED <<varsList_, collisions, applied, i>>
        ELSE /\ varsList_' = r.va
             /\ collisions' = [collisions EXCEPT ![i].impulse = r.impulse]
             /\ applied' = [applied EXCEPT ![i] = @ + 1]
             /\ i' = i + 1
             /\ UNCHANGED <<pc, error>>
  /\ UNCHANGED <<collisionHandling_, hasTotals, totals, result, hybrid, grouped,
                 lastPass, small_velocity, doPanic, loopCtr, loopPanic, focus,
                 debugHCS, indices, e, b, j2, varsList0, handled, lastPasses,
                 failures, loopCap, goog_DEBUG, simRNG_, simRNG0, simVars, otherVars, sequence,
                 run, firstRun, solves, focuses>>

\* The end of the strategy and of handleCollisions: return impulse.
Return ==
  /\ pc = "apply"
  /\ ~inApplyLoop(i, n)
  /\ totals' = IF collisionHandling_ = "SIMULTANEOUS"
               THEN countImpulses(hasTotals, totals) ELSE totals
  /\ sequence' = IF nonJoint /\ impulse THEN sequence + 1 ELSE sequence
  /\ result' = impulse
  /\ pc' = "done"
  /\ UNCHANGED <<collisionHandling_, varsList_, collisions, hasTotals, error,
                 hybrid, grouped, lastPass, small_velocity, doPanic, loopCtr,
                 loopPanic, focus, debugHCS, indices, e, b, j2, i, impulse,
                 varsList0, applied, handled, lastPasses, failures, loopCap,
                 goog_DEBUG, simRNG_, simRNG0, simVars, otherVars,
                 run, firstRun, solves, focuses>>

\* Between two calls: what the first call ended with is kept, the bodies get
\* the velocities they had and the contacts are detected again, the seed is
\* set to what it was with setRandomSeed, and the second call can start.
\* The mode and the settings stay; so do the totals and the sequence number.
Rerun ==
  /\ run = 1
  /\ pc \in {"done", "error"}
  /\ run' = 2
  /\ firstRun' = [focuses |-> focuses, velocities |-> varsList_,
                  impulses |-> [k \in 1..n |-> collisions[k].impulse],
                  pc |-> pc, error |-> error, result |-> result]
  /\ varsList_' = varsList0
  /\ collisions' = [k \in 1..n |-> [collisions[k] EXCEPT !.impulse = NaN]]
  /\ simRNG_' = setRandomSeed(simRNG0)
  /\ broadcasts' = Append(broadcasts, "RANDOM_SEED")
  /\ call' = [op |-> "setRandomSeed", value |-> simRNG0]
  /\ applied' = [k \in 1..n |-> 0]
  /\ pc' = "idle" /\ error' = "" /\ result' = FALSE
  /\ hybrid' = FALSE /\ grouped' = FALSE /\ lastPass' = FALSE
  /\ small_velocity' = SMALL_VELOCITY
  /\ loopCtr' = 0 /\ loopPanic' = 0 /\ focus' = -1 /\ debugHCS' = FALSE
  /\ indices' = << >> /\ e' = << >> /\ b' = << >> /\ j2' = << >>
  /\ i' = 0 /\ impulse' = FALSE
  /\ handled' = 0 /\ lastPasses' = 0 /\ failures' = 0
  /\ focuses' = << >>
  /\ UNCHANGED <<collisionHandling_, hasTotals, totals, doPanic, varsList0,
                 loopCap, goog_DEBUG, simRNG0, distanceTol_, velocityTol_,
                 collisionAccuracy_, bods_, solves, sequence, otherVars>>

Next ==
  \/ HandleCollisions
  \/ SerialFocus
  \/ SerialHandle
  \/ Simultaneous
  \/ ApplyImpulse
  \/ Return

Spec == Init /\ [][Next]_vars

(***************************************************************************)
(* Long calls: the solver reports no failure and the loop is followed past *)
(* LOOP_LIMIT.  With doPanic the loop of every scene ends by itself; with  *)
(* doPanic = false the call followed is the one of two bodies on an        *)
(* elastic joint handled one collision at a time.                          *)
(***************************************************************************)
ElasticJoint ==
  Scene(moving(3, 3, 0),
        << <<3, 2, Vector(1, 0), Vector(0, 0), Vector(0, 0), TRUE, 1>> >>)

InitLong ==
  /\ failures = MaxFailures
  /\ Constructed(Cardinality(Bodies))
  /\ loopCap = LOOP_LIMIT + 2
  /\ \/ /\ \E scene \in Scenes : Start(scene)
        /\ collisionHandling_ \in CollisionHandling
        /\ \E bld \in Builds :
             hasTotals = bld[1] /\ doPanic = bld[2] /\ goog_DEBUG = bld[3]
        /\ doPanic
        /\ simRNG_ \in Seeds
     \/ /\ Start(ElasticJoint)
        /\ simRNG_ = 0
        /\ collisionHandling_ = "SERIAL_SEPARATE"
        /\ hasTotals = TRUE /\ doPanic = FALSE
        /\ goog_DEBUG = TRUE
  /\ simRNG0 = simRNG_
  /\ run = 0
  /\ NoOther

SpecLong == InitLong /\ [][Next]_vars

(***************************************************************************)
(* Two calls from the same start: the same contacts, velocities, mode and  *)
(* seed.                                                                   *)
(***************************************************************************)
InitTwice ==
  /\ \E scene \in Scenes : Start(scene)
  /\ collisionHandling_ \in CollisionHandling
  /\ hasTotals = TRUE /\ doPanic = TRUE /\ goog_DEBUG \in BOOLEAN
  /\ loopCap = MaxLoop
  /\ failures = 0
  /\ simRNG_ \in Seeds /\ simRNG0 = simRNG_
  /\ Constructed(Cardinality(Bodies))
  /\ run = 1
  /\ NoOther

NextTwice == Next \/ Rerun

SpecTwice == InitTwice /\ [][NextTwice]_vars

(***************************************************************************)
(* Calls on lists of contacts that share no movable body, with a solver    *)
(* that reports no failure.                                                *)
(***************************************************************************)
InitPairs ==
  /\ \E scene \in PairScenes : Start(scene)
  /\ collisionHandling_ \in CollisionHandling
  /\ \E bld \in Builds :
       hasTotals = bld[1] /\ doPanic = bld[2] /\ goog_DEBUG = bld[3]
  /\ loopCap = MaxLoop
  /\ failures = MaxFailures
  /\ simRNG_ \in Seeds /\ simRNG0 = simRNG_
  /\ Constructed(Cardinality(Bodies))
  /\ run = 0
  /\ NoOther

SpecPairs == InitPairs /\ [][Next]_vars

(***************************************************************************)
(* The settings: bodies are added and the tolerances, the accuracy, the    *)
(* elasticity and the seed are set, in any order.  error holds the Error   *)
(* the last call threw, "" when it returned.                               *)
(***************************************************************************)
\* The model adds at most MaxBodies bodies and follows the settings for at
\* most MaxBroadcasts events.
MaxBodies == 2

MaxBroadcasts == 2

\* The values handed to the setters, in hundredths.
SettingValues == {-1, 0, 50, Hundredths + 1}

\* The variables of a call of handleCollisions, which the settings leave
\* alone.
callVars ==
  <<varsList_, collisions, hasTotals, totals, pc, result, hybrid, grouped,
    lastPass, small_velocity, doPanic, loopCtr, loopPanic, focus, debugHCS,
    indices, e, b, j2, i, impulse, varsList0, applied, handled, lastPasses,
    failures, loopCap, goog_DEBUG, simRNG0, sequence, run, firstRun, solves,
    focuses>>

\* The test of the accuracy without the lower end of the range.
accuracyTooLarge(value) == value > Hundredths

\* if (value <= 0 || value > 1)
accuracyOutOfRange(value) == value <= 0 \/ value > Hundredths

\* this.broadcastParameter(name), this.broadcast(new GenericEvent(this, name))
broadcast(name) == broadcasts' = Append(broadcasts, name)

AddBody ==
  /\ Len(bods_) < MaxBodies
  /\ bods_' = Append(bods_, newBody)
  /\ call' = [op |-> "addBody", value |-> 0]
  /\ error' = ""
  /\ UNCHANGED <<collisionHandling_, distanceTol_, velocityTol_,
                 collisionAccuracy_, broadcasts, simRNG_, callVars, otherVars>>

SetElasticity(value) ==
  /\ Len(broadcasts) < MaxBroadcasts
  /\ call' = [op |-> "setElasticity", value |-> value]
  /\ IF Len(bods_) = 0
     THEN /\ error' = "setElasticity: no bodies"
          /\ UNCHANGED <<bods_, broadcasts>>
     ELSE /\ bods_' = [k \in 1..Len(bods_) |->
                         [bods_[k] EXCEPT !.elasticity = value]]
          /\ broadcast("ELASTICITY_SET")
          /\ error' = ""
  /\ UNCHANGED <<collisionHandling_, distanceTol_, velocityTol_,
                 collisionAccuracy_, simRNG_, callVars, otherVars>>

SetCollisionAccuracy(value) ==
  /\ Len(broadcasts) < MaxBroadcasts
  /\ call' = [op |-> "setCollisionAccuracy", value |-> value]
  /\ IF accuracyOutOfRange(value)
     THEN /\ error' = "accuracy must be between 0 and 1"
          /\ UNCHANGED <<collisionAccuracy_, bods_, broadcasts>>
     ELSE /\ collisionAccuracy_' = value
          /\ bods_' = [k \in 1..Len(bods_) |->
                         [bods_[k] EXCEPT !.accuracy = value]]
          /\ broadcast("COLLISION_ACCURACY")
          /\ error' = ""
  /\ UNCHANGED <<collisionHandling_, distanceTol_, velocityTol_, simRNG_,
                 callVars, otherVars>>

SetDistanceTol(value) ==
  /\ Len(broadcasts) < MaxBroadcasts
  /\ call' = [op |-> "setDistanceTol", value |-> value]
  /\ distanceTol_' = value
  /\ bods_' = [k \in 1..Len(bods_) |-> [bods_[k] EXCEPT !.distanceTol = value]]
  /\ broadcast("DISTANCE_TOL")
  /\ error' = ""
  /\ UNCHANGED <<collisionHandling_, velocityTol_, collisionAccuracy_, simRNG_,
                 callVars, otherVars>>

SetVelocityTol(value) ==
  /\ Len(broadcasts) < MaxBroadcasts
  /\ call' = [op |-> "setVelocityTol", value |-> value]
  /\ velocityTol_' = value
  /\ bods_' = [k \in 1..Len(bods_) |-> [bods_[k] EXCEPT !.velocityTol = value]]
  /\ broadcast("VELOCITY_TOL")
  /\ error' = ""
  /\ UNCHANGED <<collisionHandling_, distanceTol_, collisionAccuracy_, simRNG_,
                 callVars, otherVars>>

SetRandomSeed(value) ==
  /\ Len(broadcasts) < MaxBroadcasts
  /\ call' = [op |-> "setRandomSeed", value |-> value]
  /\ simRNG_' = setRandomSeed(value)
  /\ broadcast("RANDOM_SEED")
  /\ error' = ""
  /\ UNCHANGED <<collisionHandling_, distanceTol_, velocityTol_,
                 collisionAccuracy_, bods_, callVars, otherVars>>

InitConfig ==
  /\ Start([velocities |-> AtRest, collisions |-> << >>])
  /\ collisionHandling_ = "HYBRID"
  /\ hasTotals = FALSE /\ doPanic = TRUE /\ goog_DEBUG = TRUE
  /\ loopCap = MaxLoop
  /\ failures = 0
  /\ simRNG_ = 0 /\ simRNG0 = 0
  /\ Constructed(0)
  /\ run = 0
  /\ NoOther

NextConfig ==
  \/ AddBody
  \/ \E value \in SettingValues : SetElasticity(value)
  \/ \E value \in SettingValues : SetCollisionAccuracy(value)
  \/ \E value \in SettingValues : SetDistanceTol(value)
  \/ \E value \in SettingValues : SetVelocityTol(value)
  \/ \E value \in Seeds : SetRandomSeed(value)

SpecConfig == InitConfig /\ [][NextConfig]_vars

(***************************************************************************)
(* findCollisions: the contacts of the bodies are collected in the list    *)
(* that handleCollisions is called with afterwards.                        *)
(***************************************************************************)
\* ImpulseSim.COLLISIONS_DISABLED
COLLISIONS_DISABLED == FALSE

\* The immovable body of the world.
wall == CHOOSE bd \in Bodies : ~isFinite(getMass(bd))

\* The velocities the variables may hold for the immovable body when
\* findCollisions is called.
WallVelocities ==
  {Velocity(vx * SMALL_VELOCITY, vy * SMALL_VELOCITY, vw) :
     vx \in {-1, 0, 1}, vy \in {-1, 0, 1}, vw \in {-1, 0, 1}}

\* checkInfiniteMassVelocity(vars): whether it throws.
checkInfiniteMassVelocity(va) ==
  \E bd \in Bodies :
    /\ getMass(bd) = POSITIVE_INFINITY
    /\ (va[bd].vx # 0 \/ va[bd].vy # 0 \/ va[bd].vw # 0)

\* bod1.checkCollision(rbcs, bod2, time): the contacts between the two bodies
\* are added to rbcs.
checkCollision(rbcs, geo, bod1, bod2) ==
  rbcs \o SelectSeq(geo, LAMBDA c : {c.primaryBody, c.normalBody} = {bod1, bod2})

\* The loops of findCollisions over the pairs of bodies, from the pair
\* (bod1, bod2) on: a pair of two immovable bodies is skipped.
RECURSIVE checkPairs(_, _, _, _)
checkPairs(rbcs, geo, bod1, bod2) ==
  IF bod1 > Cardinality(Bodies) THEN rbcs
  ELSE IF bod2 > Cardinality(Bodies)
  THEN checkPairs(rbcs, geo, bod1 + 1, bod1 + 2)
  ELSE checkPairs(IF /\ getMass(bod1) = POSITIVE_INFINITY
                     /\ getMass(bod2) = POSITIVE_INFINITY
                  THEN rbcs
                  ELSE checkCollision(rbcs, geo, bod1, bod2),
                  geo, bod1, bod2 + 1)

FindCollisions ==
  /\ pc = "idle"
  /\ IF goog_DEBUG /\ checkInfiniteMassVelocity(varsList_)
     THEN /\ Throw("infinite mass object must remain at rest")
          /\ UNCHANGED <<collisions, applied>>
     ELSE /\ IF COLLISIONS_DISABLED
             THEN UNCHANGED <<collisions, applied>>
             ELSE /\ collisions' = checkPairs(collisions, geometry, 1, 2)
                  /\ applied' = [k \in 1..Len(collisions') |-> 0]
          /\ pc' = "found"
          /\ error' = error
  /\ UNCHANGED <<collisionHandling_, varsList_, hasTotals, totals, result,
                 hybrid, grouped, lastPass, small_velocity, doPanic, loopCtr,
                 loopPanic, focus, debugHCS, indices, e, b, j2, i, impulse,
                 varsList0, handled, lastPasses, failures, loopCap, goog_DEBUG,
                 simRNG_, simRNG0, simVars, sequence, run, firstRun, solves,
                 focuses, otherVars>>

\* findCollisions is called with an empty list for bodies that touch as in
\* one of the scenes, the immovable body at rest or not.
InitDetect ==
  /\ \E scene \in Scenes \cup PairScenes : \E w \in WallVelocities :
       LET va == [scene.velocities EXCEPT ![wall] = w]
       IN /\ Start([velocities |-> va, collisions |-> << >>])
          /\ geometry =
               [k \in 1..Len(scene.collisions) |->
                  [scene.collisions[k] EXCEPT
                     !.normalVelocity =
                        calcNormalVelocity(scene.collisions[k], va)]]
  /\ collisionHandling_ = "HYBRID"
  /\ hasTotals = FALSE /\ doPanic = TRUE /\ goog_DEBUG \in BOOLEAN
  /\ loopCap = MaxLoop
  /\ failures = 0
  /\ simRNG_ = 0 /\ simRNG0 = 0
  /\ Constructed(Cardinality(Bodies))
  /\ run = 0
  /\ theConnector_ = 0 /\ updates = << >> /\ gotConnector = 0

NextDetect == FindCollisions

SpecDetect == InitDetect /\ [][NextDetect]_vars

(***************************************************************************)
(* ConnectorCollision: a collision made by a Connector.  updates lists the *)
(* calls that updateCollision made, in their order: the method called,     *)
(* then the connector it was called on or the time it was called with.     *)
(***************************************************************************)
\* The connectors a collision may be constructed with.
Connectors == 1..3

\* The times updateCollision is called with.
Times == 1..3

\* The model follows at most MaxUpdates calls of updateCollision.
MaxUpdates == 3

\* An updateCollision that runs the update of RigidBodyCollision before that
\* of the connector.
updateCollisionBaseFirst(log, connector, time) ==
  log \o << <<"RigidBodyCollision.updateCollision", time>>,
            <<"Connector.updateCollision", connector>> >>

\* this.theConnector_.updateCollision(this);
\* ConnectorCollision.superClass_.updateCollision.call(this, time);
updateCollision(log, connector, time) ==
  log \o << <<"Connector.updateCollision", connector>>,
            <<"RigidBodyCollision.updateCollision", time>> >>

\* return this.theConnector_
getConnector == theConnector_

UpdateCollision(time) ==
  /\ theConnector_ # 0
  /\ Len(updates) < 2 * MaxUpdates
  /\ updates' = updateCollision(updates, theConnector_, time)
  /\ UNCHANGED <<collisionHandling_, error, simRNG_, simVars, callVars,
                 geometry, theConnector_, gotConnector>>

GetConnector ==
  /\ theConnector_ # 0
  /\ gotConnector' = getConnector
  /\ UNCHANGED <<collisionHandling_, error, simRNG_, simVars, callVars,
                 geometry, theConnector_, updates>>

\* new ConnectorCollision(body, normalBody, theConnector, joint)
InitConnector ==
  /\ theConnector_ \in Connectors
  /\ updates = << >>
  /\ gotConnector = 0
  /\ geometry = << >>
  /\ Start([velocities |-> AtRest, collisions |-> << >>])
  /\ collisionHandling_ = "HYBRID"
  /\ hasTotals = FALSE /\ doPanic = TRUE /\ goog_DEBUG = TRUE
  /\ loopCap = MaxLoop
  /\ failures = 0
  /\ simRNG_ = 0 /\ simRNG0 = 0
  /\ Constructed(0)
  /\ run = 0

NextConnector ==
  \/ \E time \in Times : UpdateCollision(time)
  \/ GetConnector

SpecConnector == InitConnector /\ [][NextConnector]_vars

(***************************************************************************)
(* Properties.                                                             *)
(***************************************************************************)
\* C1: at every point of a call of handleCollisions, under every strategy, a
\* body of infinite mass has the linear and angular velocity it had when the
\* call started.
InfiniteMassVelocityUnchanged ==
  \A bd \in Bodies :
    ~isFinite(getMass(bd)) => varsList_[bd] = varsList0[bd]

\* A call has returned after applying a non-zero impulse at a contact with the
\* immovable wall, and the other body of that contact changed its velocity.
WallContactResolved ==
  /\ pc = "done"
  /\ \E k \in 1..n :
       /\ ~isFinite(getMass(collisions[k].normalBody))
       /\ collisions[k].impulse > 0
       /\ varsList_[collisions[k].primaryBody]
            # varsList0[collisions[k].primaryBody]

\* handleCollisionsSerial has returned normally.
SerialReturned == pc = "done" /\ collisionHandling_ # "SIMULTANEOUS"

\* C2: when a serial resolution has returned normally, every non-joint
\* contact k has b[k] >= -small_velocity, for the small_velocity the call
\* ended with.
UnilateralVelocityResolved ==
  SerialReturned =>
    \A k \in 1..n : ~joint[k] => b[k] >= -small_velocity

\* C3: when a serial resolution has returned normally, every joint contact k
\* has |b[k]| <= small_velocity.
JointVelocityResolved ==
  SerialReturned =>
    \A k \in 1..n : joint[k] => Abs(b[k]) <= small_velocity

\* C4: after handleCollisions has returned normally, every non-joint contact
\* has a recorded impulse c.impulse >= -TINY_IMPULSE (the value the field had
\* before any impulse was recorded would not do).
RecordedImpulseNotNegative ==
  pc = "done" =>
    \A k \in 1..n : ~joint[k] => collisions[k].impulse >= -TINY_IMPULSE

\* A call has returned with a non-joint contact whose cumulative impulse was
\* negative within TINY_IMPULSE and was recorded as 0.
TinyNegativeImpulseRecorded ==
  /\ pc = "done"
  /\ \E k \in 1..n :
       ~joint[k] /\ j2[k] < 0 /\ collisions[k].impulse = 0

\* The step applyImpulse(collisions[i], j2[i]) of the loops that apply the
\* impulses.
ApplyStep == pc = "apply" /\ inApplyLoop(i, n) /\ <<pc, i>>' # <<pc, i>>

\* C5: applyImpulse(c, j) with j < 0: on a non-joint contact with
\* |j| <= TINY_IMPULSE it records c.impulse = 0 and changes no velocity; on a
\* non-joint contact with |j| > TINY_IMPULSE it throws and changes nothing; on
\* a joint it records j and changes the normal velocity of the contact by
\* A[i][i] * j, without error.
NegativeImpulseHandled ==
  [][ApplyStep /\ j2[i] < 0 =>
       LET c == collisions[i]
           j == j2[i]
       IN IF c.joint
          THEN /\ pc' # "error"
               /\ collisions'[i].impulse = j
               /\ calcNormalVelocity(c, varsList_')
                    = calcNormalVelocity(c, varsList_)
                      + makeCollisionMatrix(collisions)[i][i] * j
          ELSE IF -j <= TINY_IMPULSE
          THEN /\ pc' # "error"
               /\ collisions'[i].impulse = 0
               /\ varsList_' = varsList_
          ELSE /\ pc' = "error"
               /\ error' = "negative impulse is impossible"
               /\ varsList_' = varsList_
               /\ collisions' = collisions]_vars

\* applyImpulse has thrown for a negative impulse on a non-joint contact.
NegativeImpulseThrown ==
  /\ pc = "error"
  /\ error = "negative impulse is impossible"
  /\ ~joint[i] /\ j2[i] < -TINY_IMPULSE

\* The call runs one of the serial strategies.
Serial ==
  collisionHandling_ \in CollisionHandling \ {"SIMULTANEOUS"}

\* What applyImpulse records for the cumulative impulse j.
recorded(k) == IF ~joint[k] /\ j2[k] < 0 THEN 0 ELSE j2[k]

\* C6: in a serial resolution no velocity changes and applyImpulse is not
\* called while the loop runs; after the loop applyImpulse is called for the
\* contacts in turn, and when the call has returned it was called exactly
\* once for each contact, with that contact's cumulative impulse j2[k].
ImpulsesAppliedOnceAfterLoop ==
  Serial =>
    /\ pc \in {"idle", "loop", "handle"} =>
         /\ varsList_ = varsList0
         /\ \A k \in 1..n : applied[k] = 0 /\ collisions[k].impulse = NaN
    /\ pc = "apply" =>
         \A k \in 1..n : applied[k] = (IF k < i THEN 1 ELSE 0)
    /\ pc = "done" =>
         \A k \in 1..n :
           applied[k] = 1 /\ collisions[k].impulse = recorded(k)

\* A serial resolution of two contacts has returned after more than one
\* solve, with velocities changed.
TwoContactsResolved ==
  /\ Serial /\ pc = "done"
  /\ n = 2 /\ handled >= 2
  /\ \A k \in 1..n : applied[k] = 1 /\ collisions[k].impulse > 0
  /\ varsList_ # varsList0

\* C7: with lastPass off the loop ends at the first selection that finds no
\* large contact, with no solve after it; with lastPass on that selection is
\* followed by one solve over all contacts with focus = -1 and velocities not
\* scaled by elasticity, the last iteration of the call: it happens once and
\* no selection follows it.
SerialStateMachine ==
  Serial =>
    /\ pc \in {"loop", "handle"} => lastPasses = 0
    /\ pc = "handle" /\ focus = -1 =>
         /\ lastPass
         /\ handleSet(hybrid, grouped, small_velocity, focus, b, collisions)
              = 1..n
         /\ subVelocity(focus, e, b, idx2Of(1..n)) = b
    /\ pc \in {"apply", "done"} =>
         /\ focus = -1
         /\ IF lastPass
            THEN lastPasses = 1 /\ handled = loopCtr
            ELSE lastPasses = 0 /\ handled = loopCtr - 1

\* A resolution with lastPass on has returned after focus iterations and
\* the one last pass.
LastPassDone ==
  /\ Serial /\ pc = "done" /\ lastPass
  /\ lastPasses = 1 /\ handled >= 2 /\ handled = loopCtr

\* Contact k has a large velocity.
large(k) ==
  \/ ~joint[k] /\ b[k] < -small_velocity
  \/ joint[k] /\ Abs(b[k]) > small_velocity

PanicOnMultiplesOfLimit ==
  [][small_velocity' =
       IF /\ loopCtr' = loopCtr + 1
          /\ doPanic
          /\ loopCtr' % PANIC_LIMIT = 0
       THEN small_velocity * 2
       ELSE small_velocity]_vars

\* C9: with doPanic, small_velocity is doubled in the iterations whose counter
\* is one more than a multiple of PANIC_LIMIT = 20 * n (20n + 1, 40n + 1, ...)
\* and changes in no other step; without doPanic it never changes.
PanicAfterMultiplesOfLimit ==
  [][small_velocity' =
       IF /\ loopCtr' = loopCtr + 1
          /\ doPanic
          /\ loopCtr' > PANIC_LIMIT
          /\ (loopCtr' - 1) % PANIC_LIMIT = 0
       THEN small_velocity * 2
       ELSE small_velocity]_vars

\* small_velocity has been doubled for the second time, in iteration 40n + 1.
SecondPanic ==
  /\ Serial /\ doPanic /\ pc = "handle"
  /\ loopCtr = 2 * PANIC_LIMIT + 1
  /\ small_velocity = 4 * SMALL_VELOCITY

SerialReturnsNonJointImpulse ==
  SerialReturned =>
    (result <=> /\ \E k \in 1..n : j2[k] > TINY_IMPULSE
                /\ \E k \in 1..n : ~joint[k])

\* C13: a serial resolution returns true exactly when some cumulative impulse
\* j2[k] exceeded TINY_IMPULSE, joints included; what needs a non-joint on
\* top of that is the mark of a discontinuous energy (incrSequence), made
\* once in that case and not otherwise.
SerialReturnsLargeImpulse ==
  SerialReturned =>
    /\ result <=> \E k \in 1..n : j2[k] > TINY_IMPULSE
    /\ sequence = IF result /\ (\E k \in 1..n : ~joint[k]) THEN 1 ELSE 0

\* A serial resolution of a list of joints alone has returned true, without
\* marking the energy.
JointsOnlyReturnTrue ==
  /\ SerialReturned /\ result /\ sequence = 0
  /\ n > 0 /\ \A k \in 1..n : joint[k] /\ j2[k] > TINY_IMPULSE

\* C16: the matrix of makeCollisionMatrix is symmetric for the list of
\* contacts of the call: A[i][k] = A[k][i] for all i, k.
CollisionMatrixSymmetric ==
  LET A == makeCollisionMatrix(collisions)
  IN \A r, k \in 1..n : A[r][k] = A[k][r]

\* The matrix has been made for two contacts that influence each other
\* through a body that is the primary body of one and the normal body of the
\* other.
InfluenceAcrossContacts ==
  /\ pc = "apply" /\ n = 2
  /\ collisions[1].primaryBody = collisions[2].normalBody
  /\ makeCollisionMatrix(collisions)[1][2] # 0

\* C18: when a call has returned, totals holds nothing if opt_totals was not
\* passed; else 1 under SIMULTANEOUS and, under a serial strategy, the number
\* of iterations that ran hcs_handle: every iteration of the loop with
\* lastPass on, every one but the last selection with lastPass off.
TotalsCountSolves ==
  pc = "done" =>
    totals = IF ~hasTotals THEN 0
             ELSE IF collisionHandling_ = "SIMULTANEOUS" THEN 1
             ELSE IF lastPass THEN loopCtr
             ELSE loopCtr - 1

\* Serial resolutions with opt_totals have returned after three iterations
\* of the loop, the last of them the selection that ended it.
TwoSolvesCounted ==
  /\ SerialReturned /\ hasTotals /\ ~lastPass
  /\ loopCtr = 3 /\ totals = 2

\* The impulses of the solve of a step of hcs_handle: what the step added to
\* j2 for the contacts of its subset.
solvedImpulses(idx2) == [k \in 1..Len(idx2) |-> j2'[idx2[k]] - j2[idx2[k]]]

\* C17: a solve whose result is not within TOLERANCE (|a[i]| > TOLERANCE on
\* a joint row or on a row with j[i] > 0, for a = A j + b) ends the call with
\* an error, in the simultaneous and in the serial strategy: a step that
\* solves and goes on has a result within TOLERANCE.
SolveVerified ==
  [][/\ pc = "simultaneous" /\ pc' # "error" =>
          checkForceAccel(TOLERANCE, j2',
                          accelOf(makeCollisionMatrix(collisions), j2', b'),
                          joint)
     /\ pc = "handle" /\ pc' # "error" =>
          LET idx2 == idx2Of(handleSet(hybrid, grouped, small_velocity, focus,
                                       b, collisions))
              A1 == subMatrix(makeCollisionMatrix(collisions), idx2)
              b1 == subVelocity(focus, e, b, idx2)
              joint1 == [k \in 1..Len(idx2) |-> joint[idx2[k]]]
          IN checkForceAccel(TOLERANCE, solvedImpulses(idx2),
                             accelOf(A1, solvedImpulses(idx2), b1), joint1)]_vars

\* The list holds one non-joint contact between two bodies of finite mass
\* that approach with a large velocity.
SingleFiniteContact ==
  /\ n = 1 /\ ~joint[1]
  /\ isFinite(getMass(collisions[1].primaryBody))
  /\ isFinite(getMass(collisions[1].normalBody))
  /\ collisions[1].normalVelocity < -SMALL_VELOCITY

\* The momentum of the two bodies of contact c along x and y, for velocities
\* va (in units of mass times velocity).
momentum(c, va) ==
  <<getMass(c.primaryBody) * va[c.primaryBody].vx
      + getMass(c.normalBody) * va[c.normalBody].vx,
    getMass(c.primaryBody) * va[c.primaryBody].vy
      + getMass(c.normalBody) * va[c.normalBody].vy>>

\* C19: when a call for one non-joint contact between two bodies of finite
\* mass with normal velocity v < -small_velocity and elasticity e has
\* returned, under any strategy, the normal velocity of the contact is -e * v
\* and the momentum of the two bodies is what it was (so that for e = 0 both
\* have the mass-weighted mean velocity).
SingleContactRestitution ==
  pc = "done" /\ SingleFiniteContact =>
    /\ calcNormalVelocity(collisions[1], varsList_)
         = -collisions[1].elasticity * collisions[1].normalVelocity
    /\ momentum(collisions[1], varsList_) = momentum(collisions[1], varsList0)

\* The bodies the contacts of the list refer to.
referenced ==
  UNION {{collisions[k].primaryBody, collisions[k].normalBody} : k \in 1..n}

\* What a step of the call leaves alone: the handling mode, the tolerances,
\* the accuracy, the bodies' settings, the events broadcast, the velocities
\* of the bodies no contact refers to and everything of the contacts but
\* their impulse field.
FrameKept ==
  /\ UNCHANGED <<collisionHandling_, simVars>>
  /\ \A bd \in Bodies \ referenced : varsList_'[bd] = varsList_[bd]
  /\ Len(collisions') = n
  /\ \A k \in 1..n :
       [collisions'[k] EXCEPT !.impulse = NaN]
         = [collisions[k] EXCEPT !.impulse = NaN]

RECURSIVE draws(_, _)
draws(seed, count) ==
  IF count = 0 THEN seed ELSE draws(nextSeed(seed), count - 1)

InvalidConfigurationRejected ==
  [][LET invalidAccuracy == /\ call'.op = "setCollisionAccuracy"
                            /\ (call'.value <= 0 \/ call'.value > Hundredths)
         noBodies == call'.op = "setElasticity" /\ Len(bods_) = 0
     IN /\ invalidAccuracy => error' = "accuracy must be between 0 and 1"
        /\ noBodies => error' = "setElasticity: no bodies"
        /\ invalidAccuracy \/ noBodies =>
             UNCHANGED <<collisionHandling_, distanceTol_, velocityTol_,
                         collisionAccuracy_, bods_, broadcasts, simRNG_,
                         callVars>>]_vars

\* setCollisionAccuracy has thrown for a value out of range, on a simulation
\* with a body, an accuracy set before and an event broadcast.
InvalidAccuracyThrown ==
  /\ call.op = "setCollisionAccuracy" /\ call.value <= 0
  /\ error = "accuracy must be between 0 and 1"
  /\ Len(bods_) > 0 /\ collisionAccuracy_ # COLLISION_ACCURACY
  /\ broadcasts = <<"COLLISION_ACCURACY">>

\* C15: the distanceTol and velocityTol stored in the simulation and in its
\* bodies are > 0 after any calls of setDistanceTol and setVelocityTol.
TolerancesPositive ==
  /\ distanceTol_ > 0 /\ velocityTol_ > 0
  /\ \A k \in 1..Len(bods_) :
       bods_[k].distanceTol > 0 /\ bods_[k].velocityTol > 0

serialStrategy ==
  [h \in {"SERIAL_SEPARATE", "SERIAL_GROUPED", "SERIAL_SEPARATE_LASTPASS",
          "SERIAL_GROUPED_LASTPASS", "HYBRID"} |->
     CASE h = "SERIAL_SEPARATE" -> <<FALSE, FALSE, FALSE>>
       [] h = "SERIAL_GROUPED" -> <<FALSE, TRUE, FALSE>>
       [] h = "SERIAL_SEPARATE_LASTPASS" -> <<FALSE, FALSE, TRUE>>
       [] h = "SERIAL_GROUPED_LASTPASS" -> <<FALSE, TRUE, TRUE>>
       [] h = "HYBRID" -> <<TRUE, TRUE, TRUE>>]

\* C25: handleCollisions on a list that is not empty dispatches on
\* collisionHandling: SIMULTANEOUS runs the simultaneous strategy, each of the
\* four SERIAL values and HYBRID runs the serial strategy with the hybrid,
\* grouped and lastPass of its name, and any other value throws without
\* changing a velocity.
DispatchOnCollisionHandling ==
  [][(pc = "idle" /\ n > 0) =>
       IF collisionHandling_ = "SIMULTANEOUS"
       THEN pc' = "simultaneous"
       ELSE IF collisionHandling_ \in DOMAIN serialStrategy
       THEN /\ pc' = "loop"
            /\ <<hybrid', grouped', lastPass'>> =
                 serialStrategy[collisionHandling_]
       ELSE /\ pc' = "error"
            /\ error' = "unknown collision handler"
            /\ varsList_' = varsList_
            /\ collisions' = collisions]_vars

\* The hybrid strategy has been dispatched to: the serial strategy starts with
\* hybrid, grouped and lastPass all true.
HybridDispatched ==
  /\ collisionHandling_ = "HYBRID"
  /\ pc = "loop"
  /\ loopCtr = 0
  /\ <<hybrid, grouped, lastPass>> = <<TRUE, TRUE, TRUE>>

\* C29: handleCollisions on an empty list throws under every value of
\* collisionHandling, one that is none of the six strategies included, and
\* changes no velocity, no total, no seed and no sequence number.
EmptyListRejected ==
  [][(pc = "idle" /\ n = 0) =>
       /\ pc' = "error"
       /\ error' = "empty array passed to handleCollisions"
       /\ UNCHANGED <<varsList_, totals, simRNG_, sequence>>]_vars

\* An empty list has been refused under a collisionHandling that is none of
\* the six strategies: the refusal came before the dispatch.
EmptyListThrownBeforeDispatch ==
  /\ n = 0
  /\ collisionHandling_ = "UNKNOWN"
  /\ pc = "error"
  /\ error = "empty array passed to handleCollisions"

\* C27: when a call fails because the solver's result is outside the
\* tolerance, in the simultaneous strategy or in any iteration of the serial
\* one, no velocity of a body and no impulse field of a contact has been
\* changed and applyImpulse has not been called.
FailedSolveChangesNothing ==
  (pc = "error" /\ error = "compute_impulses failed") =>
    /\ varsList_ = varsList0
    /\ \A k \in 1..n : collisions[k].impulse = NaN /\ applied[k] = 0

\* A serial call has failed in an iteration after one whose solve was
\* accepted.
LaterIterationFailed ==
  /\ Serial
  /\ pc = "error"
  /\ error = "compute_impulses failed"
  /\ handled >= 1
  /\ \E k \in 1..n : j2[k] > 0

\* The normal velocities the contacts had when the call started.
v0 == [k \in 1..n |-> collisions[k].normalVelocity]

\* C23: an iteration of the serial loop changes b only by adding
\* A[i][g] * j1[idx[g]] for the contacts g of the subset, j1 being what the
\* iteration adds to j2; the factor 1 + e reaches only the copy b1, also when
\* the subset is the whole list, and e stays as it is.
ScalingOnlyOnCopy ==
  [][(Serial /\ pc = "handle" /\ pc' # "error") =>
       /\ b' = accelOf(makeCollisionMatrix(collisions),
                       [g \in 1..n |-> j2'[g] - j2[g]], b)
       /\ e' = e]_vars

\* A single elastic contact, which is the whole list, has been handled once:
\* its velocity is turned round, not scaled again.
WholeListHandled ==
  /\ Serial
  /\ n = 1
  /\ handled = 1
  /\ e[1] = 1
  /\ j2[1] > 0
  /\ b[1] = - v0[1]

\* C24: at the end of every iteration of the serial loop, and from there to
\* the return, b[i] = v0[i] + sum over g of A[i][g] * j2[g].
SerialLoopInvariant ==
  (Serial /\ pc \in {"loop", "handle", "apply", "done"}) =>
    b = accelOf(makeCollisionMatrix(collisions), j2, v0)

\* Two iterations have given an impulse to one contact and changed the
\* velocity of another.
TwoIterationsAccumulated ==
  /\ Serial
  /\ pc = "loop"
  /\ handled >= 2
  /\ \E k \in 1..n : j2[k] > 0 /\ b[k] # v0[k]
  /\ \E k \in 1..n : j2[k] = 0 /\ b[k] # v0[k]

\* The bodies of a contact.
bodiesOf(c) == {c.primaryBody, c.normalBody}

\* C26: influence(ci, cj, B) is 0 when B has infinite mass, when B is not a
\* body of ci and when B is not a body of cj; so A[i][k] = 0 for two contacts
\* that have no body of finite mass in common.
InfluenceOnlyThroughSharedBody ==
  /\ \A r, k \in 1..n : \A B \in Bodies :
       (\/ ~isFinite(getMass(B))
        \/ B \notin bodiesOf(collisions[r])
        \/ B \notin bodiesOf(collisions[k]))
         => influence(collisions[r], collisions[k], B) = 0
  /\ \A r, k \in 1..n :
       (\A B \in bodiesOf(collisions[r]) \cap bodiesOf(collisions[k]) :
          ~isFinite(getMass(B)))
         => makeCollisionMatrix(collisions)[r][k] = 0

\* Two contacts that share the wall only have been resolved, each with an
\* impulse of its own.
WallSharedOnly ==
  /\ pc = "done" /\ n = 2
  /\ bodiesOf(collisions[1]) \cap bodiesOf(collisions[2]) = {1}
  /\ collisions[1].impulse > 0 /\ collisions[2].impulse > 0
  /\ makeCollisionMatrix(collisions)[1][1] # 0

\* C28: after any calls of addBody, setDistanceTol, setVelocityTol and
\* setCollisionAccuracy, every body of the simulation holds the distance
\* tolerance, the velocity tolerance and the accuracy the simulation holds.
BodiesCarrySettings ==
  \A k \in 1..Len(bods_) :
    /\ bods_[k].distanceTol = distanceTol_
    /\ bods_[k].velocityTol = velocityTol_
    /\ bods_[k].accuracy = collisionAccuracy_

\* A body has been added to a simulation that held a body already and whose
\* distance tolerance and accuracy had been set to other values than those
\* of the constructor.
BodyAddedAfterSettings ==
  /\ call.op = "addBody"
  /\ Len(bods_) = 2
  /\ distanceTol_ # DISTANCE_TOL
  /\ collisionAccuracy_ # COLLISION_ACCURACY

\* C21: when findCollisions has been called with variables in which the
\* immovable body has a velocity, it has thrown and has added no collision to
\* the list.
MovingWallRejected ==
  (pc # "idle" /\ checkInfiniteMassVelocity(varsList_)) =>
    /\ pc = "error"
    /\ error = "infinite mass object must remain at rest"
    /\ collisions = << >>

\* C30: every call of updateCollision(time) of a ConnectorCollision calls
\* updateCollision of the connector first and the update of RigidBodyCollision
\* for that time after it, and the connector called, like the one getConnector
\* returns, is the one the collision holds since it was constructed.
ConnectorUpdatesFirst ==
  /\ Len(updates) % 2 = 0
  /\ \A k \in 1..(Len(updates) \div 2) :
       /\ updates[2 * k - 1] = <<"Connector.updateCollision", theConnector_>>
       /\ updates[2 * k][1] = "RigidBodyCollision.updateCollision"
       /\ updates[2 * k][2] \in Times
  /\ gotConnector \in {0, theConnector_}

\* A collision has been updated for two different times and has returned its
\* connector.
UpdatedTwice ==
  /\ Len(updates) = 4
  /\ updates[2][2] # updates[4][2]
  /\ gotConnector # 0

=============================================================================
